---- MODULE Spec2Model ----
(***************************************************************************)
(* The interpreter assembler (src/interpreter/interpreter-assembler.cc):   *)
(* one bytecode handler, followed along the path its generated code takes  *)
(* at run time.  The handler body is any sequence of the assembler's       *)
(* operations; every call-out is split at the point where the callee runs. *)
(* The handler path is followed on a 32-bit target; operand decoding and    *)
(* register addressing are followed on every target, with machine words    *)
(* kept as their bytes, least significant first.                           *)
(***************************************************************************)
EXTENDS Integers, Sequences, FiniteSets, TLC

\* ------------------------------------------------------------ bounds
MaxOps == 2           \* body operations a handler performs before it ends

VARIABLES
    FLAG_trace_ignition, FLAG_debug_code,   \* build/runtime flags
    bytecode_,                 \* the opcode this handler is generated for
    params,                    \* the handler's six parameters
    accumulator_, context_, dispatch_table_,
    disable_stack_check_across_call_, stack_pointer_before_call_,
    frame,                     \* the register frame's slots
    sp,                        \* the native stack pointer
    pc, cont, callee, new_bytecode_offset,
    nops,                      \* body operations performed so far
    ops,                       \* the operations executed, in order
    tail,                      \* the tail call taken, if any
    at_return,                 \* dispatch-table slot when the last call returned
    before_call,               \* the state CallPrologue started from
    untraced,                  \* the same handler run without tracing
    trace_swapped,             \* a table swap happened during a trace call
    target,                    \* the architecture the code is generated for
    operand_types,             \* the operand types the bytecode declares
    operand_bytes,             \* the operand bytes that follow the opcode
    decoded                    \* the last operand or register value computed

vars == <<FLAG_trace_ignition, FLAG_debug_code, bytecode_, params,
          accumulator_, context_, dispatch_table_,
          disable_stack_check_across_call_, stack_pointer_before_call_,
          frame, sp, pc, cont, callee, new_bytecode_offset, nops, ops, tail,
          at_return, before_call, untraced, trace_swapped,
          target, operand_types, operand_bytes, decoded>>

\* What is fixed when a handler is generated.
build == <<FLAG_trace_ignition, FLAG_debug_code, bytecode_, params,
           target, operand_types, operand_bytes>>

\* ------------------------------------------------------------ target
kPointerSizeLog2 == target.kPointerSizeLog2
kPointerSize == 2 ^ kPointerSizeLog2
kSmiShiftBits == 1

\* SmiTag(value): WordShl(value, kSmiShiftSize + kSmiTagSize)
SmiTag(value) == value * (2 ^ kSmiShiftBits)

Word32Shl(value, shift) == value * (2 ^ shift)

\* ------------------------------------------------------------ values
RegisterFileRawPointer == 500
BytecodeArrayTaggedPointer == 600
stack_limit == 50
NoStackPointer == 0 - 1       \* stack_pointer_before_call_ == nullptr

Tables == {31, 32}            \* the normal and the debugger dispatch table
InitialTables == {31}
InitialAccumulators == {11}
AccValues == {12}             \* values a handler binds the accumulator to
InitialContexts == {21}
ContextValues == {21, 22}
RegisterValues == {13}        \* values a handler stores into a register
Offsets == {100}
Deltas == {10}
StackPointers == {49, 51}     \* below and above the stack limit
StaleOffset == SmiTag(96)     \* an earlier handler's saved offset

kStackGuard == "Runtime::kStackGuard"
kAbort == "Runtime::kAbort"
kInterpreterTraceBytecodeEntry == "Runtime::kInterpreterTraceBytecodeEntry"
kInterpreterTraceBytecodeExit == "Runtime::kInterpreterTraceBytecodeExit"
TraceFunctions == {kInterpreterTraceBytecodeEntry, kInterpreterTraceBytecodeExit}
kUnexpectedStackPointer == 7      \* a BailoutReason code
HandlerBailoutReasons == {8}      \* the reasons handlers abort with

\* The byte stored at an offset of the bytecode buffer.
BufferByte(offset) == (offset * 7 + 130) % 256

\* A signed load of the opcode byte.
LoadInt8(offset) ==
    IF BufferByte(offset) >= 128 THEN BufferByte(offset) - 256
    ELSE BufferByte(offset)

\* Load(MachineType::Uint8(), BytecodeArrayTaggedPointer(), offset)
LoadUint8(offset) == BufferByte(offset)

\* Bytecodes::Size(bytecode): the opcode byte and its operand bytes.
BytecodesSize(bytecode) == 1 + (bytecode % 4)

\* Entry b of a dispatch table: the code object of the handler of opcode b.
HandlerOf(table, b) == table * 1000 + b

\* Load(MachineType::Pointer(), table, byte_offset)
LoadPointer(table, byte_offset) ==
    IF byte_offset >= 0 /\ byte_offset % kPointerSize = 0
          /\ byte_offset \div kPointerSize < 256
    THEN HandlerOf(table, byte_offset \div kPointerSize)
    ELSE 0

InterpreterExitTrampoline == 9999

Event(op, fid, args) == [op |-> op, fid |-> fid, args |-> args]

NoTail == [kind |-> "none", target |-> 0, args |-> <<>>]

\* Parameter(InterpreterDispatchDescriptor::kBytecodeOffsetParameter)
BytecodeOffset == params.bytecode_offset

GetAccumulator == accumulator_

GetContext == context_

DispatchTableRawPointer == dispatch_table_

\* StoreRegister(value, slot): a store into one slot of the register frame.
StoreRegister(f, value, slot) == [f EXCEPT ![slot] = value]

\* LoadRegister(slot)
LoadRegister(f, slot) == f[slot]

Snapshot == [frame |-> frame, accumulator_ |-> accumulator_,
             context_ |-> context_, dispatch_table_ |-> dispatch_table_,
             sp |-> sp]

\* ------------------------------------------------------------ call protocol
\* A prologue that saves the offset untagged.
CallPrologueStoresUntagged(f, table) ==
    StoreRegister(StoreRegister(f, BytecodeOffset, "bytecode_offset"),
                  table, "dispatch_table")

\* A prologue that saves the offset into the current-context register slot.
CallPrologueStoresWrongSlot(f, table) ==
    StoreRegister(StoreRegister(f, SmiTag(BytecodeOffset), "context"),
                  table, "dispatch_table")

\* CallPrologue: the two stores into the reserved frame slots.
CallPrologueStores(f, table) ==
    StoreRegister(StoreRegister(f, SmiTag(BytecodeOffset), "bytecode_offset"),
                  table, "dispatch_table")

\* CallPrologue: the debug-build snapshot of the stack pointer.
CallPrologueSnapshot(disable, current) ==
    IF FLAG_debug_code /\ ~disable THEN sp ELSE current

\* A call that skips the prologue.
CallStubNoPrologue(fid, args, k, disable, current, pre) ==
    /\ frame' = frame
    /\ stack_pointer_before_call_' = current
    /\ disable_stack_check_across_call_' = disable
    /\ ops' = ops \o pre \o <<Event("call", fid, args)>>
    /\ pc' = "call"
    /\ cont' = k
    /\ callee' = fid
    /\ before_call' = Snapshot
    /\ untraced' = untraced

\* CodeStubAssembler::CallStub / CallRuntime: CallPrologue, then the call.
\* The callee runs next; CallEpilogue follows its return and continues at k.
CallStub(fid, args, k, disable, current, pre) ==
    /\ frame' = CallPrologueStores(frame, DispatchTableRawPointer)
    /\ stack_pointer_before_call_' = CallPrologueSnapshot(disable, current)
    /\ disable_stack_check_across_call_' = disable
    /\ ops' = ops \o pre \o <<Event("CallPrologue", "", <<>>),
                               Event("call", fid, args)>>
    /\ pc' = "call"
    /\ cont' = k
    /\ callee' = fid
    /\ before_call' = Snapshot
    /\ untraced' = IF fid \in TraceFunctions THEN untraced
                   ELSE [untraced EXCEPT !.frame =
                            CallPrologueStores(@, untraced.dispatch_table_)]

CallRuntime(fid, args, k, pre) ==
    CallStub(fid, args, k, disable_stack_check_across_call_,
             stack_pointer_before_call_, pre)

\* A trace call that passes the offset untagged.
TraceBytecodeUntagged(function_id, k, pre) ==
    CallRuntime(function_id,
                <<GetContext, BytecodeArrayTaggedPointer,
                  BytecodeOffset, GetAccumulator>>, k, pre)

\* TraceBytecode(function_id)
TraceBytecode(function_id, k, pre) ==
    CallRuntime(function_id,
                <<GetContext, BytecodeArrayTaggedPointer,
                  SmiTag(BytecodeOffset), GetAccumulator>>, k, pre)

\* An Abort that leaves the stack-pointer check armed across its own call.
AbortCallChecked(bailout_reason, current, pre) ==
    CallStub(kAbort, <<GetContext, SmiTag(bailout_reason)>>, "abort_return",
             disable_stack_check_across_call_, current,
             pre \o <<Event("Abort", "", <<bailout_reason>>)>>)

\* Abort(bailout_reason), up to the runtime call that ends execution.
AbortCall(bailout_reason, current, pre) ==
    CallStub(kAbort, <<GetContext, SmiTag(bailout_reason)>>, "abort_return",
             TRUE, current, pre \o <<Event("Abort", "", <<bailout_reason>>)>>)

\* What a callee may do to the caller's frame and stack before it returns.
CalleeEffects(fid) ==
    IF fid \in TraceFunctions THEN {"none", "swap"}
    ELSE IF fid = kStackGuard THEN {"none", "swap", "sp"}
    ELSE {"none", "writes", "sp"}

OtherTable(table) == CHOOSE t \in Tables : t # table

OtherContext(c) == CHOOSE d \in ContextValues : d # c

EffectOnFrame(f, e) ==
    CASE e = "swap" -> StoreRegister(f, OtherTable(f.dispatch_table), "dispatch_table")
      [] e = "writes" ->
            StoreRegister(
               StoreRegister(
                  StoreRegister(f, OtherTable(f.dispatch_table), "dispatch_table"),
                  StaleOffset, "bytecode_offset"),
               OtherContext(f.context), "context")
      [] OTHER -> f

EffectOnStackPointer(s, e) == IF e = "sp" THEN s + 1 ELSE s

\* ------------------------------------------------------------ dispatch
\* Advance(delta)
Advance(delta) == BytecodeOffset + delta

\* The opcode byte read as a signed byte.
TargetBytecodeSigned(new_offset) == LoadInt8(new_offset)

\* DispatchTo: target_bytecode, the opcode byte at the new offset.
TargetBytecode(new_offset) == LoadUint8(new_offset)

\* A tail call that comes back to the handler.
ReturnsToCaller == "body"

\* Where control is once a tail call has been made: it never comes back.
AfterTailCall == "done"

\* A tail call with the dispatch table and the context exchanged.
DispatchTailSwappedArgs(new_offset, pre) ==
    LET target_bytecode == TargetBytecode(new_offset)
        target_code_object ==
            LoadPointer(DispatchTableRawPointer,
                        Word32Shl(target_bytecode, kPointerSizeLog2))
        args == <<GetAccumulator, RegisterFileRawPointer, new_offset,
                  BytecodeArrayTaggedPointer, GetContext,
                  DispatchTableRawPointer>>
    IN /\ tail' = [kind |-> "dispatch", target |-> target_code_object,
                   args |-> args]
       /\ ops' = ops \o pre \o <<Event("TailCall", "", args)>>
       /\ pc' = AfterTailCall

\* DispatchTo, after the optional trace call: the two loads and the tail call.
DispatchTail(new_offset, pre) ==
    LET target_bytecode == TargetBytecode(new_offset)
        target_code_object ==
            LoadPointer(DispatchTableRawPointer,
                        Word32Shl(target_bytecode, kPointerSizeLog2))
        args == <<GetAccumulator, RegisterFileRawPointer, new_offset,
                  BytecodeArrayTaggedPointer, DispatchTableRawPointer,
                  GetContext>>
    IN /\ tail' = [kind |-> "dispatch", target |-> target_code_object,
                   args |-> args]
       /\ ops' = ops \o pre \o <<Event("TailCall", "", args)>>
       /\ pc' = AfterTailCall

\* An InterpreterReturn that returns to its caller instead of tail calling.
ReturnTailPlainReturn(pre) ==
    /\ tail' = tail
    /\ ops' = ops \o pre \o <<Event("Return", "", <<>>)>>
    /\ pc' = AfterTailCall

\* InterpreterReturn, after the optional trace call.
ReturnTail(pre) ==
    LET args == <<GetAccumulator, RegisterFileRawPointer, BytecodeOffset,
                  BytecodeArrayTaggedPointer, DispatchTableRawPointer,
                  GetContext>>
    IN /\ tail' = [kind |-> "return", target |-> InterpreterExitTrampoline,
                   args |-> args]
       /\ ops' = ops \o pre \o <<Event("TailCall", "", args)>>
       /\ pc' = AfterTailCall

\* DispatchTo(new_bytecode_offset)
DispatchTo(new_offset, pre) ==
    /\ new_bytecode_offset' = new_offset
    /\ IF FLAG_trace_ignition
       THEN /\ TraceBytecode(kInterpreterTraceBytecodeExit, "dispatch", pre)
            /\ UNCHANGED tail
       ELSE /\ DispatchTail(new_offset, pre)
            /\ UNCHANGED <<frame, stack_pointer_before_call_,
                           disable_stack_check_across_call_, cont, callee,
                           before_call, untraced>>
    /\ UNCHANGED <<build, decoded, accumulator_, context_, dispatch_table_, sp, nops,
                   at_return, trace_swapped>>

\* ------------------------------------------------------------ machine words
kBitsPerByte == 8
kInt32Size == 4           \* bytes of a 32-bit word
kInt64Size == 8           \* bytes of a 64-bit word

\* The bytes of a two's complement integer, least significant first.
RECURSIVE WordOf(_, _)
WordOf(value, size) ==
    IF size = 0 THEN <<>>
    ELSE <<value % (2 ^ kBitsPerByte)>>
            \o WordOf(value \div (2 ^ kBitsPerByte), size - 1)

IsNegative(word) == word[Len(word)] >= 2 ^ (kBitsPerByte - 1)

RECURSIVE Fill(_, _)
Fill(byte, size) == IF size = 0 THEN <<>> ELSE <<byte>> \o Fill(byte, size - 1)

ZeroExtend(word, size) == word \o Fill(0, size - Len(word))

SignExtend(word, size) ==
    word \o Fill(IF IsNegative(word) THEN 2 ^ kBitsPerByte - 1 ELSE 0,
                 size - Len(word))

\* A 32-bit to 64-bit change that clears the upper half.
ChangeUint32ToUint64(word) == ZeroExtend(word, kInt64Size)

ChangeInt32ToInt64(word) == SignExtend(word, kInt64Size)

Int32Constant(value) == WordOf(value, kInt32Size)

IntPtrConstant(value) == WordOf(value, kPointerSize)

RECURSIVE ShiftLeftWithCarry(_, _, _)
ShiftLeftWithCarry(word, shift, carry) ==
    IF word = <<>> THEN <<>>
    ELSE LET t == Head(word) * (2 ^ shift) + carry
         IN <<t % (2 ^ kBitsPerByte)>>
               \o ShiftLeftWithCarry(Tail(word), shift, t \div (2 ^ kBitsPerByte))

\* WordShl / Word32Shl: bits shifted out of the word are lost.
WordShl(word, shift) == ShiftLeftWithCarry(word, shift, 0)

RECURSIVE BitOr(_, _)
BitOr(x, y) ==
    IF x = 0 THEN y
    ELSE IF y = 0 THEN x
    ELSE (IF x % 2 = 1 \/ y % 2 = 1 THEN 1 ELSE 0)
            + 2 * BitOr(x \div 2, y \div 2)

\* WordOr / Word32Or
WordOr(lhs, rhs) == [i \in 1..Len(lhs) |-> BitOr(lhs[i], rhs[i])]

RECURSIVE AddWithCarry(_, _, _)
AddWithCarry(lhs, rhs, carry) ==
    IF lhs = <<>> THEN <<>>
    ELSE LET t == Head(lhs) + Head(rhs) + carry
         IN <<t % (2 ^ kBitsPerByte)>>
               \o AddWithCarry(Tail(lhs), Tail(rhs), t \div (2 ^ kBitsPerByte))

\* IntPtrAdd: word-width addition, the carry out of the word is lost.  A
\* 32-bit constant operand is an immediate, sign-extended to the word.
IntPtrAdd(lhs, rhs) == AddWithCarry(lhs, SignExtend(rhs, Len(lhs)), 0)

\* ------------------------------------------------------------ bytecode format
ByteValues == {0, 5, 127, 128, 253, 255}

PointerSizeLog2s == {2, 3}

Targets == [TargetSupportsUnalignedAccess : BOOLEAN,
            V8_TARGET_LITTLE_ENDIAN : BOOLEAN,
            kPointerSizeLog2 : PointerSizeLog2s]

\* The target the handler path is followed on.
HandlerTarget == [TargetSupportsUnalignedAccess |-> TRUE,
                  V8_TARGET_LITTLE_ENDIAN |-> TRUE,
                  kPointerSizeLog2 |-> 2]

\* The operand types of the bytecode the handler path is followed for.
HandlerOperandTypes == <<"kIdx8", "kReg8">>

\* The operand types of the bytecodes handlers are generated for.
OperandSignatures ==
    {<<"kIdx8", "kReg8">>, <<"kIdx16", "kReg8">>, <<"kImm8", "kNone">>,
     <<"kRegCount8", "kReg8">>, <<"kRegCount16", "kNone">>,
     <<"kReg16", "kImm8">>}

\* Bytecodes::IsRegisterOperandType
IsRegisterOperandType(operand_type) == operand_type \in {"kReg8", "kReg16"}

\* Bytecodes::SizeOfOperand
SizeOfOperand(operand_type) ==
    CASE operand_type \in {"kIdx8", "kImm8", "kReg8", "kRegCount8"} -> "kByte"
      [] operand_type \in {"kIdx16", "kReg16", "kRegCount16"} -> "kShort"
      [] OTHER -> "kNone"

OperandBytes(operand_size) ==
    CASE operand_size = "kByte" -> 1
      [] operand_size = "kShort" -> 2
      [] OTHER -> 0

\* Bytecodes::GetOperandType(bytecode_, operand_index)
GetOperandType(types, operand_index) ==
    IF operand_index + 1 \in DOMAIN types THEN types[operand_index + 1]
    ELSE "kNone"

\* Bytecodes::GetOperandSize(bytecode_, operand_index)
GetOperandSize(types, operand_index) ==
    SizeOfOperand(GetOperandType(types, operand_index))

\* Bytecodes::GetOperandOffset(bytecode_, operand_index): past the opcode byte
\* and the operands before this one.
RECURSIVE GetOperandOffset(_, _)
GetOperandOffset(types, operand_index) ==
    IF operand_index = 0 THEN 1
    ELSE GetOperandOffset(types, operand_index - 1)
            + OperandBytes(GetOperandSize(types, operand_index - 1))

\* The operand bytes a bytecode of these operand types may carry.
RECURSIVE ByteSequences(_)
ByteSequences(length) ==
    IF length = 0 THEN {<<>>}
    ELSE {<<b>> \o rest : b \in ByteValues, rest \in ByteSequences(length - 1)}

OperandBytesOf(types) ==
    ByteSequences(GetOperandOffset(types, Len(types)) - 1)

\* ------------------------------------------------------------ operand decoding
\* The byte of the bytecode array at an offset.
ByteAt(offset) ==
    IF offset - BytecodeOffset \in DOMAIN operand_bytes
    THEN operand_bytes[offset - BytecodeOffset]
    ELSE BufferByte(offset)

\* The two bytes a 16-bit load reads at an offset, in the target's byte order.
HalfWordAt(offset) ==
    IF target.V8_TARGET_LITTLE_ENDIAN
    THEN <<ByteAt(offset), ByteAt(offset + 1)>>
    ELSE <<ByteAt(offset + 1), ByteAt(offset)>>

\* Load(machine_type, BytecodeArrayTaggedPointer(), offset)
Load(machine_type, offset) ==
    CASE machine_type = "Uint8" -> ZeroExtend(<<ByteAt(offset)>>, kInt32Size)
      [] machine_type = "Int8" -> SignExtend(<<ByteAt(offset)>>, kInt32Size)
      [] machine_type = "Uint16" -> ZeroExtend(HalfWordAt(offset), kInt32Size)
      [] machine_type = "Int16" -> SignExtend(HalfWordAt(offset), kInt32Size)

TargetSupportsUnalignedAccess == target.TargetSupportsUnalignedAccess

OperandAddress(operand_index) ==
    BytecodeOffset + GetOperandOffset(operand_types, operand_index)

\* A byte decoder that loads the byte signed.
BytecodeOperandSigned(operand_index) ==
    Load("Int8", OperandAddress(operand_index))

BytecodeOperand(operand_index) == Load("Uint8", OperandAddress(operand_index))

\* A widening that clears the upper half of the 64-bit word.
ToPointerSizeUnsigned(load) ==
    IF kPointerSize = kInt64Size THEN ChangeUint32ToUint64(load) ELSE load

\* The widening at the end of the two sign-extended decoders.
ToPointerSize(load) ==
    IF kPointerSize = kInt64Size THEN ChangeInt32ToInt64(load) ELSE load

BytecodeOperandSignExtended(operand_index) ==
    ToPointerSize(Load("Int8", OperandAddress(operand_index)))

\* BytecodeOperandShort on a target with unaligned access.
BytecodeOperandShortUnaligned(operand_index) ==
    Load("Uint16", OperandAddress(operand_index))

\* BytecodeOperandShort on a target without unaligned access.
BytecodeOperandShortBytewise(operand_index) ==
    LET offset == OperandAddress(operand_index)
        first_byte == Load("Uint8", offset)
        second_byte == Load("Uint8", offset + 1)
    IN IF target.V8_TARGET_LITTLE_ENDIAN
       THEN WordOr(WordShl(second_byte, kBitsPerByte), first_byte)
       ELSE WordOr(WordShl(first_byte, kBitsPerByte), second_byte)

BytecodeOperandShort(operand_index) ==
    IF TargetSupportsUnalignedAccess
    THEN BytecodeOperandShortUnaligned(operand_index)
    ELSE BytecodeOperandShortBytewise(operand_index)

\* BytecodeOperandShortSignExtended, the load on a target with unaligned access.
LoadShortUnaligned(operand_index) ==
    Load("Int16", OperandAddress(operand_index))

\* A bytewise load that reads the high byte unsigned.
LoadShortBytewiseUnsigned(operand_index) ==
    LET operand_offset == OperandAddress(operand_index)
        hi_byte_offset == IF target.V8_TARGET_LITTLE_ENDIAN
                          THEN operand_offset + 1 ELSE operand_offset
        lo_byte_offset == IF target.V8_TARGET_LITTLE_ENDIAN
                          THEN operand_offset ELSE operand_offset + 1
        hi_byte == Load("Uint8", hi_byte_offset)
        lo_byte == Load("Uint8", lo_byte_offset)
    IN WordOr(WordShl(hi_byte, kBitsPerByte), lo_byte)

\* BytecodeOperandShortSignExtended, the load on a target without.
LoadShortBytewise(operand_index) ==
    LET operand_offset == OperandAddress(operand_index)
        hi_byte_offset == IF target.V8_TARGET_LITTLE_ENDIAN
                          THEN operand_offset + 1 ELSE operand_offset
        lo_byte_offset == IF target.V8_TARGET_LITTLE_ENDIAN
                          THEN operand_offset ELSE operand_offset + 1
        hi_byte == Load("Int8", hi_byte_offset)
        lo_byte == Load("Uint8", lo_byte_offset)
    IN WordOr(WordShl(hi_byte, kBitsPerByte), lo_byte)

BytecodeOperandShortSignExtended(operand_index) ==
    ToPointerSize(IF TargetSupportsUnalignedAccess
                  THEN LoadShortUnaligned(operand_index)
                  ELSE LoadShortBytewise(operand_index))

\* ------------------------------------------------------------ register frame
RegisterFrameOffset(index) == WordShl(index, kPointerSizeLog2)

RegisterLocation(reg_index) ==
    IntPtrAdd(IntPtrConstant(RegisterFileRawPointer),
              RegisterFrameOffset(reg_index))

\* A next register one above.
NextRegisterUp(reg_index) == IntPtrAdd(reg_index, Int32Constant(1))

NextRegister(reg_index) == IntPtrAdd(reg_index, Int32Constant(0 - 1))

\* No operand or register value computed yet.
NoDecode == [fn |-> "", operand_index |-> 0, arg |-> <<>>, value |-> <<>>]

\* ------------------------------------------------------------ initial state
\* The handler's state once its assembler is constructed.
HandlerInit ==
    /\ FLAG_trace_ignition \in BOOLEAN
    /\ FLAG_debug_code \in BOOLEAN
    /\ \E o \in Offsets, a \in InitialAccumulators,
          c \in InitialContexts, t \in InitialTables :
          /\ params = [accumulator |-> a, bytecode_offset |-> o,
                       dispatch_table |-> t, context |-> c]
          /\ bytecode_ = LoadUint8(o)
          /\ accumulator_ = a
          /\ context_ = c
          /\ dispatch_table_ = t
          /\ frame = [bytecode_offset |-> StaleOffset, dispatch_table |-> t,
                      context |-> c, r0 |-> 0]
    /\ disable_stack_check_across_call_ = FALSE
    /\ stack_pointer_before_call_ = NoStackPointer
    /\ sp \in StackPointers
    /\ pc = "entry"
    /\ cont = "body"
    /\ callee = ""
    /\ new_bytecode_offset = 0
    /\ nops = 0
    /\ ops = <<>>
    /\ tail = NoTail
    /\ at_return = 0
    /\ before_call = Snapshot
    /\ untraced = Snapshot
    /\ trace_swapped = FALSE
    /\ decoded = NoDecode

Init ==
    /\ target = HandlerTarget
    /\ operand_types = HandlerOperandTypes
    /\ HandlerInit
    /\ operand_bytes = [k \in 1..(BytecodesSize(bytecode_) - 1) |->
                           BufferByte(BytecodeOffset + k)]

\* ------------------------------------------------------------ operations
\* InterpreterAssembler::InterpreterAssembler: the handler's entry.
Constructor ==
    /\ pc = "entry"
    /\ IF FLAG_trace_ignition
       THEN TraceBytecode(kInterpreterTraceBytecodeEntry, "body", <<>>)
       ELSE /\ pc' = "body"
            /\ UNCHANGED <<frame, stack_pointer_before_call_,
                           disable_stack_check_across_call_, ops, cont, callee,
                           before_call, untraced>>
    /\ UNCHANGED <<build, decoded, accumulator_, context_, dispatch_table_, sp,
                   new_bytecode_offset, nops, tail, at_return, trace_swapped>>

InBody == pc = "body" /\ nops < MaxOps

SetAccumulator(value) ==
    /\ InBody
    /\ accumulator_' = value
    /\ untraced' = [untraced EXCEPT !.accumulator_ = value]
    /\ ops' = Append(ops, Event("SetAccumulator", "", <<value>>))
    /\ nops' = nops + 1
    /\ UNCHANGED <<build, decoded, context_, dispatch_table_, frame, sp, pc, cont,
                   callee, disable_stack_check_across_call_,
                   stack_pointer_before_call_, new_bytecode_offset, tail,
                   at_return, before_call, trace_swapped>>

\* A SetContext that binds the variable and leaves the register slot alone.
SetContextBindOnly(value) ==
    /\ InBody
    /\ context_' = value
    /\ untraced' = [untraced EXCEPT !.context_ = value]
    /\ ops' = Append(ops, Event("SetContext", "", <<value>>))
    /\ nops' = nops + 1
    /\ UNCHANGED <<build, decoded, accumulator_, dispatch_table_, frame, sp,
                   pc, cont, callee, disable_stack_check_across_call_,
                   stack_pointer_before_call_, new_bytecode_offset, tail,
                   at_return, before_call, trace_swapped>>

SetContext(value) ==
    /\ InBody
    /\ frame' = StoreRegister(frame, value, "context")
    /\ context_' = value
    /\ untraced' = [untraced EXCEPT
                      !.frame = StoreRegister(@, value, "context"),
                      !.context_ = value]
    /\ ops' = Append(ops, Event("SetContext", "", <<value>>))
    /\ nops' = nops + 1
    /\ UNCHANGED <<build, decoded, accumulator_, dispatch_table_, sp, pc, cont, callee,
                   disable_stack_check_across_call_,
                   stack_pointer_before_call_, new_bytecode_offset, tail,
                   at_return, before_call, trace_swapped>>

\* StoreRegister(value, reg) on a virtual register of the frame.
StoreRegisterOp(value) ==
    /\ InBody
    /\ frame' = StoreRegister(frame, value, "r0")
    /\ untraced' = [untraced EXCEPT !.frame = StoreRegister(@, value, "r0")]
    /\ ops' = Append(ops, Event("StoreRegister", "", <<value>>))
    /\ nops' = nops + 1
    /\ UNCHANGED <<build, decoded, accumulator_, context_, dispatch_table_, sp, pc,
                   cont, callee, disable_stack_check_across_call_,
                   stack_pointer_before_call_, new_bytecode_offset, tail,
                   at_return, before_call, trace_swapped>>

\* A stack check with the comparison inverted.
StackCheckInverted(s, limit) == s < limit

\* StackCheck: UintPtrGreaterThanOrEqual(sp, stack_limit)
StackCheckOk(s, limit) == s >= limit

CallOutFrame == <<build, decoded, accumulator_, context_, dispatch_table_, sp,
                  new_bytecode_offset, tail, at_return, trace_swapped>>

CallJS ==
    /\ InBody
    /\ CallRuntime("InterpreterPushArgsAndCall", <<GetContext>>, "body", <<>>)
    /\ nops' = nops + 1
    /\ UNCHANGED CallOutFrame

CallConstruct ==
    /\ InBody
    /\ CallRuntime("InterpreterPushArgsAndConstruct", <<GetContext>>, "body",
                   <<>>)
    /\ nops' = nops + 1
    /\ UNCHANGED CallOutFrame

CallRuntimeN ==
    /\ InBody
    /\ CallRuntime("InterpreterCEntry", <<GetContext>>, "body",
                   <<Event("Load", "function_entry", <<>>)>>)
    /\ nops' = nops + 1
    /\ UNCHANGED CallOutFrame

StackCheck ==
    /\ InBody
    /\ nops' = nops + 1
    /\ IF StackCheckOk(sp, stack_limit)
       THEN /\ ops' = Append(ops, Event("StackCheck", "", <<sp>>))
            /\ UNCHANGED <<frame, stack_pointer_before_call_,
                           disable_stack_check_across_call_, pc, cont, callee,
                           before_call, untraced>>
       ELSE CallRuntime(kStackGuard, <<GetContext>>, "body",
                        <<Event("StackCheck", "", <<sp>>)>>)
    /\ UNCHANGED CallOutFrame

Abort(bailout_reason) ==
    /\ InBody
    /\ AbortCall(bailout_reason, stack_pointer_before_call_, <<>>)
    /\ nops' = nops + 1
    /\ UNCHANGED CallOutFrame

\* The callee runs and returns to the handler.
StubReturns ==
    /\ pc = "call"
    /\ callee # kAbort
    /\ \E e \in CalleeEffects(callee) :
          /\ frame' = EffectOnFrame(frame, e)
          /\ sp' = EffectOnStackPointer(sp, e)
          /\ untraced' = IF callee \in TraceFunctions THEN untraced
                         ELSE [untraced EXCEPT !.frame = EffectOnFrame(@, e)]
          /\ trace_swapped' =
                (trace_swapped \/ (callee \in TraceFunctions /\ e = "swap"))
    /\ at_return' = frame'.dispatch_table
    /\ pc' = "epilogue"
    /\ UNCHANGED <<build, decoded, accumulator_, context_, dispatch_table_,
                   disable_stack_check_across_call_,
                   stack_pointer_before_call_, cont, callee,
                   new_bytecode_offset, nops, ops, tail, before_call>>

\* The runtime abort service ends execution.
AbortService ==
    /\ pc = "call"
    /\ callee = kAbort
    /\ pc' = "aborted"
    /\ UNCHANGED <<build, decoded, accumulator_, context_, dispatch_table_,
                   disable_stack_check_across_call_,
                   stack_pointer_before_call_, frame, sp, cont, callee,
                   new_bytecode_offset, nops, ops, tail, at_return,
                   before_call, untraced, trace_swapped>>

\* An Abort that leaves the check disabled for the code generated after it.
DisableLeftSetAfterAbort == TRUE

\* The flag as generating Abort leaves it for the code that follows: the
\* branch of AbortIfWordNotEqual that does not abort is generated after it.
DisableAfterAbort == FALSE

\* A comparison that takes every pair of words for equal.
WordEqualAlways(lhs, rhs) == TRUE

\* AbortIfWordNotEqual: the comparison its branch is taken on.
WordEqual(lhs, rhs) == lhs = rhs

\* An epilogue that keeps the table it had before the call.
CachedDispatchTable(f) == dispatch_table_

\* The value CallEpilogue binds dispatch_table_ to.
ReloadedDispatchTable(f) == LoadRegister(f, "dispatch_table")

\* An epilogue that also reloads the context from its register slot.
CallEpilogueReloadsContext ==
    /\ pc = "epilogue"
    /\ LET check == FLAG_debug_code /\ ~disable_stack_check_across_call_
           stack_pointer_after_call == sp
           stack_pointer_before_call == stack_pointer_before_call_
           cleared == IF check THEN NoStackPointer
                      ELSE stack_pointer_before_call_
       IN IF check /\ ~WordEqual(stack_pointer_before_call,
                                   stack_pointer_after_call)
          THEN \* AbortIfWordNotEqual: no_match
               /\ AbortCall(kUnexpectedStackPointer, cleared,
                            <<Event("CallEpilogue", "", <<>>)>>)
               /\ UNCHANGED <<dispatch_table_, context_>>
          ELSE /\ stack_pointer_before_call_' = cleared
               /\ dispatch_table_' = ReloadedDispatchTable(frame)
               /\ context_' = LoadRegister(frame, "context")
               /\ untraced' =
                     IF callee \in TraceFunctions THEN untraced
                     ELSE [untraced EXCEPT !.dispatch_table_ =
                              ReloadedDispatchTable(untraced.frame)]
               /\ ops' = Append(ops, Event("CallEpilogue", "", <<>>))
               /\ pc' = cont
               /\ disable_stack_check_across_call_' =
                     IF check THEN DisableAfterAbort
                     ELSE disable_stack_check_across_call_
               /\ UNCHANGED <<frame, cont, callee, before_call>>
    /\ UNCHANGED <<build, decoded, accumulator_, sp, new_bytecode_offset,
                   nops, tail, at_return, trace_swapped>>

CallEpilogue ==
    /\ pc = "epilogue"
    /\ LET check == FLAG_debug_code /\ ~disable_stack_check_across_call_
           stack_pointer_after_call == sp
           stack_pointer_before_call == stack_pointer_before_call_
           cleared == IF check THEN NoStackPointer
                      ELSE stack_pointer_before_call_
       IN IF check /\ ~WordEqual(stack_pointer_before_call,
                                   stack_pointer_after_call)
          THEN \* AbortIfWordNotEqual: no_match
               /\ AbortCall(kUnexpectedStackPointer, cleared,
                            <<Event("CallEpilogue", "", <<>>)>>)
               /\ UNCHANGED dispatch_table_
          ELSE /\ stack_pointer_before_call_' = cleared
               /\ dispatch_table_' = ReloadedDispatchTable(frame)
               /\ untraced' =
                     IF callee \in TraceFunctions THEN untraced
                     ELSE [untraced EXCEPT !.dispatch_table_ =
                              ReloadedDispatchTable(untraced.frame)]
               /\ ops' = Append(ops, Event("CallEpilogue", "", <<>>))
               /\ pc' = cont
               /\ disable_stack_check_across_call_' =
                     IF check THEN DisableAfterAbort
                     ELSE disable_stack_check_across_call_
               /\ UNCHANGED <<frame, cont, callee, before_call>>
    /\ UNCHANGED <<build, decoded, accumulator_, context_, sp, new_bytecode_offset,
                   nops, tail, at_return, trace_swapped>>

\* A conditional jump that takes the jump whatever the condition.
JumpConditionalAlways(condition, delta) ==
    /\ pc = "body"
    /\ DispatchTo(Advance(delta),
                  <<Event("JumpConditional", "",
                          <<IF condition THEN 1 ELSE 0, delta>>)>>)

Jump(delta) ==
    /\ pc = "body"
    /\ DispatchTo(Advance(delta), <<Event("Jump", "", <<delta>>)>>)

JumpConditional(condition, delta) ==
    /\ pc = "body"
    /\ IF condition
       THEN DispatchTo(Advance(delta),
                       <<Event("JumpConditional", "", <<1, delta>>)>>)
       ELSE DispatchTo(Advance(BytecodesSize(bytecode_)),
                       <<Event("JumpConditional", "", <<0, delta>>)>>)

Dispatch ==
    /\ pc = "body"
    /\ DispatchTo(Advance(BytecodesSize(bytecode_)),
                  <<Event("Dispatch", "", <<>>)>>)

\* DispatchTo resumes after its trace call.
DispatchToResume ==
    /\ pc = "dispatch"
    /\ DispatchTail(new_bytecode_offset, <<>>)
    /\ UNCHANGED <<build, decoded, accumulator_, context_, dispatch_table_,
                   disable_stack_check_across_call_,
                   stack_pointer_before_call_, frame, sp, cont, callee,
                   new_bytecode_offset, nops, at_return, before_call,
                   untraced, trace_swapped>>

InterpreterReturn ==
    /\ pc = "body"
    /\ IF FLAG_trace_ignition
       THEN /\ TraceBytecode(kInterpreterTraceBytecodeExit, "return",
                             <<Event("InterpreterReturn", "", <<>>)>>)
            /\ UNCHANGED tail
       ELSE /\ ReturnTail(<<Event("InterpreterReturn", "", <<>>)>>)
            /\ UNCHANGED <<frame, stack_pointer_before_call_,
                           disable_stack_check_across_call_, cont, callee,
                           before_call, untraced>>
    /\ UNCHANGED <<build, decoded, accumulator_, context_, dispatch_table_, sp, nops,
                   new_bytecode_offset, at_return, trace_swapped>>

\* InterpreterReturn resumes after its trace call.
InterpreterReturnResume ==
    /\ pc = "return"
    /\ ReturnTail(<<>>)
    /\ UNCHANGED <<build, decoded, accumulator_, context_, dispatch_table_,
                   disable_stack_check_across_call_,
                   stack_pointer_before_call_, frame, sp, cont, callee,
                   new_bytecode_offset, nops, at_return, before_call,
                   untraced, trace_swapped>>

Next ==
    \/ Constructor
    \/ \E v \in AccValues : SetAccumulator(v)
    \/ \E v \in ContextValues : SetContext(v)
    \/ \E v \in RegisterValues : StoreRegisterOp(v)
    \/ CallJS
    \/ CallConstruct
    \/ CallRuntimeN
    \/ StackCheck
    \/ \E r \in HandlerBailoutReasons : Abort(r)
    \/ StubReturns
    \/ AbortService
    \/ CallEpilogue
    \/ \E d \in Deltas : Jump(d)
    \/ \E c \in BOOLEAN, d \in Deltas : JumpConditional(c, d)
    \/ Dispatch
    \/ DispatchToResume
    \/ InterpreterReturn
    \/ InterpreterReturnResume

Spec == Init /\ [][Next]_vars

\* ------------------------------------------------------------ decoding steps
\* What computing an operand or a register value leaves alone.
DecodeFrame == <<build, accumulator_, context_, dispatch_table_,
                 disable_stack_check_across_call_, stack_pointer_before_call_,
                 frame, sp, cont, callee, new_bytecode_offset, nops, ops,
                 tail, at_return, before_call, untraced, trace_swapped>>

Decoded(fn, operand_index, arg, value) ==
    /\ decoded' = [fn |-> fn, operand_index |-> operand_index,
                   arg |-> arg, value |-> value]
    /\ UNCHANGED <<pc, DecodeFrame>>

\* UNREACHABLE(): code generation stops, no value is produced.
Unreachable(fn, operand_index) ==
    /\ decoded' = [fn |-> fn, operand_index |-> operand_index,
                   arg |-> <<>>, value |-> <<>>]
    /\ pc' = "unreachable"
    /\ UNCHANGED DecodeFrame

OperandIndices == 0..(Len(operand_types) - 1)

BytecodeOperandCount(operand_index) ==
    /\ pc = "body"
    /\ LET size == GetOperandSize(operand_types, operand_index)
           type == GetOperandType(operand_types, operand_index)
       IN CASE size = "kByte" ->
                  /\ type = "kRegCount8"
                  /\ Decoded("BytecodeOperandCount", operand_index, <<>>,
                             BytecodeOperand(operand_index))
            [] size = "kShort" ->
                  /\ type = "kRegCount16"
                  /\ Decoded("BytecodeOperandCount", operand_index, <<>>,
                             BytecodeOperandShort(operand_index))
            [] size = "kNone" ->
                  Unreachable("BytecodeOperandCount", operand_index)

BytecodeOperandImm(operand_index) ==
    /\ pc = "body"
    /\ GetOperandType(operand_types, operand_index) = "kImm8"
    /\ Decoded("BytecodeOperandImm", operand_index, <<>>,
               BytecodeOperandSignExtended(operand_index))

BytecodeOperandIdx(operand_index) ==
    /\ pc = "body"
    /\ LET size == GetOperandSize(operand_types, operand_index)
           type == GetOperandType(operand_types, operand_index)
       IN CASE size = "kByte" ->
                  /\ type = "kIdx8"
                  /\ Decoded("BytecodeOperandIdx", operand_index, <<>>,
                             BytecodeOperand(operand_index))
            [] size = "kShort" ->
                  /\ type = "kIdx16"
                  /\ Decoded("BytecodeOperandIdx", operand_index, <<>>,
                             BytecodeOperandShort(operand_index))
            [] size = "kNone" ->
                  Unreachable("BytecodeOperandIdx", operand_index)

\* A register decoder that takes the unsigned path.
RegisterOperandUnsigned(operand_index) ==
    IF GetOperandSize(operand_types, operand_index) = "kByte"
    THEN BytecodeOperand(operand_index)
    ELSE BytecodeOperandShort(operand_index)

\* BytecodeOperandReg: the decoder it picks for a register operand.
RegisterOperand(operand_index) ==
    IF GetOperandSize(operand_types, operand_index) = "kByte"
    THEN BytecodeOperandSignExtended(operand_index)
    ELSE BytecodeOperandShortSignExtended(operand_index)

BytecodeOperandReg(operand_index) ==
    /\ pc = "body"
    /\ LET operand_type == GetOperandType(operand_types, operand_index)
       IN IF /\ IsRegisterOperandType(operand_type)
             /\ SizeOfOperand(operand_type) \in {"kByte", "kShort"}
          THEN Decoded("BytecodeOperandReg", operand_index, <<>>,
                       RegisterOperand(operand_index))
          ELSE Unreachable("BytecodeOperandReg", operand_index)

\* NextRegister applied to a decoded register operand.
NextRegisterOp ==
    /\ pc = "body"
    /\ decoded.fn = "BytecodeOperandReg"
    /\ Decoded("NextRegister", decoded.operand_index, decoded.value,
               NextRegister(decoded.value))

\* RegisterLocation applied to a register index.
RegisterLocationOp ==
    /\ pc = "body"
    /\ decoded.fn \in {"BytecodeOperandReg", "NextRegister"}
    /\ Decoded("RegisterLocation", decoded.operand_index, decoded.value,
               RegisterLocation(decoded.value))

\* A handler that makes no trace call, generated for any target and any of
\* the bytecodes, with any operand bytes.
InitDecode ==
    /\ target \in Targets
    /\ operand_types \in OperandSignatures
    /\ operand_bytes \in OperandBytesOf(operand_types)
    /\ HandlerInit
    /\ ~FLAG_trace_ignition
    /\ ~FLAG_debug_code
    /\ sp > stack_limit

NextDecode ==
    \/ Constructor
    \/ \E i \in OperandIndices : BytecodeOperandCount(i)
    \/ \E i \in OperandIndices : BytecodeOperandImm(i)
    \/ \E i \in OperandIndices : BytecodeOperandIdx(i)
    \/ \E i \in OperandIndices : BytecodeOperandReg(i)
    \/ NextRegisterOp
    \/ RegisterLocationOp

SpecDecode == InitDecode /\ [][NextDecode]_vars

\* ------------------------------------------------------------ properties
Indices(op) == {i \in 1..Len(ops) : ops[i].op = op}

CallIndices(fid) == {i \in Indices("call") : ops[i].fid = fid}

TailTaken == tail.kind # "none"

\* The handler runs its own code, outside any call-out.
Running == pc \in {"body", "dispatch", "return", "done"}

\* C1: once a call-out has returned and its epilogue has run, the dispatch
\* table the handler holds, the one it passes in its tail call and the one it
\* selects the next handler from, is the value the reserved dispatch-table
\* slot held at the moment that (most recent) call returned.
C1_TableRereadAfterCall ==
    (at_return # 0) =>
       /\ Running => DispatchTableRawPointer = at_return
       /\ TailTaken => tail.args[5] = at_return
       /\ tail.kind = "dispatch" =>
             tail.target = HandlerOf(at_return, BufferByte(tail.args[3]))

\* A table swapped during a call is the one the next dispatch uses.
C1_Witness ==
    /\ tail.kind = "dispatch"
    /\ CallIndices("InterpreterPushArgsAndCall") # {}
    /\ at_return # params.dispatch_table
    /\ tail.args[5] = at_return

\* C2: in the sequence of operations a handler executes, every stub call is
\* immediately preceded by a CallPrologue and, once it has returned,
\* immediately followed by a CallEpilogue; every prologue is followed by its
\* call and every epilogue preceded by one, so each call has one of each.
C2_PrologueCallEpilogue ==
    /\ \A i \in Indices("call") :
          /\ i > 1 /\ ops[i - 1].op = "CallPrologue"
          /\ i < Len(ops) => ops[i + 1].op = "CallEpilogue"
          /\ (i = Len(ops)) => pc \in {"call", "epilogue", "aborted"}
    /\ \A i \in Indices("CallPrologue") :
          i < Len(ops) /\ ops[i + 1].op = "call"
    /\ \A i \in Indices("CallEpilogue") :
          i > 1 /\ ops[i - 1].op = "call"

\* Each of the three call wrappers has completed a call.
C2_Witness ==
    /\ \E i \in CallIndices("InterpreterPushArgsAndCall") :
          i < Len(ops) /\ ops[i + 1].op = "CallEpilogue"
    /\ \E i \in CallIndices("InterpreterCEntry") :
          i < Len(ops) /\ ops[i + 1].op = "CallEpilogue"

\* C3: right after CallPrologue the saved-offset slot holds the Smi-tagged
\* entry offset of the handler, the dispatch-table slot holds the handler's
\* dispatch table, every other slot is as before, and the accumulator,
\* context and dispatch-table variable are as before.
C3_PrologueEffect ==
    (pc = "call") =>
       /\ frame = [before_call.frame EXCEPT
                      !.bytecode_offset = 2 * params.bytecode_offset,
                      !.dispatch_table = before_call.dispatch_table_]
       /\ accumulator_ = before_call.accumulator_
       /\ context_ = before_call.context_
       /\ dispatch_table_ = before_call.dispatch_table_

\* The prologue of the trace call inside a dispatch to an advanced offset.
C3_Witness ==
    /\ pc = "call"
    /\ cont = "dispatch"
    /\ new_bytecode_offset # params.bytecode_offset
    /\ before_call.frame.bytecode_offset # 2 * params.bytecode_offset

JumpConditionalTarget(e) ==
    IF e.args[1] = 1 THEN params.bytecode_offset + e.args[2]
    ELSE params.bytecode_offset + BytecodesSize(bytecode_)

\* C4: a handler that ends in JumpConditional(condition, delta) makes one
\* tail call and no more: to offset + delta when the condition holds and to
\* offset + size of the current bytecode when it does not; from offset 100
\* with size 3, JumpConditional(false, 10) dispatches to 103.
C4_JumpConditional ==
    /\ Cardinality(Indices("TailCall")) <= 1
    /\ \A i \in Indices("JumpConditional") :
          /\ pc = "done" =>
                /\ Cardinality(Indices("TailCall")) = 1
                /\ tail.kind = "dispatch"
                /\ tail.args[3] = JumpConditionalTarget(ops[i])
          /\ (pc = "done" /\ params.bytecode_offset = 100
                /\ ops[i].args = <<0, 10>>) => tail.args[3] = 103

\* JumpConditional(false, 10) at offset 100 has dispatched.
C4_Witness ==
    /\ pc = "done"
    /\ params.bytecode_offset = 100
    /\ BytecodesSize(bytecode_) = 3
    /\ \E i \in Indices("JumpConditional") : ops[i].args = <<0, 10>>
    /\ tail.args[3] = 103

\* C5: the handler a dispatch selects is the entry of the dispatch table it
\* passes on whose index is the unsigned opcode byte the bytecode buffer
\* holds at the new offset; it is a function of buffer, table and offset.
C5_DispatchSelects ==
    (tail.kind = "dispatch") =>
       tail.target = HandlerOf(tail.args[5], BufferByte(tail.args[3]))

\* A dispatch on an opcode byte with the top bit set.
C5_Witness ==
    /\ tail.kind = "dispatch"
    /\ BufferByte(tail.args[3]) >= 128

\* C6: the tail call is the last operation of the handler: once it is made
\* the handler is done, and no operation follows it.
C6_TailCallIsLast ==
    /\ \A i \in Indices("TailCall") : i = Len(ops)
    /\ TailTaken <=> (pc = "done")
    /\ TailTaken <=> (Indices("TailCall") # {})

\* Both arms of a JumpConditional and a return have made their tail call.
C6_Witness ==
    /\ pc = "done"
    /\ Indices("JumpConditional") # {}
    /\ Indices("CallEpilogue") # {}

\* The value of the last op(value) among the operations, or the parameter.
LastSet(op, param) ==
    IF Indices(op) = {} THEN param
    ELSE ops[CHOOSE i \in Indices(op) : \A j \in Indices(op) : j <= i].args[1]

\* The offset the handler's final operation names.
TerminalOffset ==
    IF Indices("Jump") # {}
    THEN params.bytecode_offset
            + ops[CHOOSE i \in Indices("Jump") : TRUE].args[1]
    ELSE IF Indices("JumpConditional") # {}
    THEN JumpConditionalTarget(ops[CHOOSE i \in Indices("JumpConditional") : TRUE])
    ELSE IF Indices("Dispatch") # {}
    THEN params.bytecode_offset + BytecodesSize(bytecode_)
    ELSE params.bytecode_offset

\* C7: every tail call passes six values, in this order: the accumulator
\* last set, the register-frame base, the offset (the new one for a dispatch,
\* the handler's own for a return), the bytecode buffer, the dispatch table
\* and the context last set.
C7_StateTuple ==
    TailTaken =>
       /\ Len(tail.args) = 6
       /\ tail.args[1] = LastSet("SetAccumulator", params.accumulator)
       /\ tail.args[2] = RegisterFileRawPointer
       /\ tail.args[3] = TerminalOffset
       /\ tail.args[4] = BytecodeArrayTaggedPointer
       /\ tail.args[5] = dispatch_table_
       /\ tail.args[5] \in Tables
       /\ tail.args[6] = LastSet("SetContext", params.context)
       /\ ops[Len(ops)].args = tail.args

\* A dispatch after the accumulator and the context were set.
C7_Witness ==
    /\ tail.kind = "dispatch"
    /\ tail.args[1] # params.accumulator
    /\ tail.args[6] # params.context
    /\ tail.args[3] # params.bytecode_offset

\* The StackCheck operations that found the stack pointer below the limit.
StackChecksBelow == {i \in Indices("StackCheck") : ops[i].args[1] < stack_limit}

\* A step that performs StackCheck.
StackCheckStep ==
    /\ Len(ops') > Len(ops)
    /\ ops'[Len(ops) + 1].op = "StackCheck"

C8_Calls ==
    /\ \A i \in StackChecksBelow :
          /\ Len(ops) >= i + 2
          /\ ops[i + 1].op = "CallPrologue"
          /\ ops[i + 2].op = "call" /\ ops[i + 2].fid = kStackGuard
    /\ \A i \in Indices("StackCheck") :
          (ops[i].args[1] > stack_limit /\ Len(ops) >= i + 2)
             => ops[i + 2].fid # kStackGuard
    /\ Cardinality(CallIndices(kStackGuard)) = Cardinality(StackChecksBelow)

C8_Step ==
    StackCheckStep =>
       /\ sp > stack_limit =>
             /\ Len(ops') = Len(ops) + 1
             /\ pc' = pc
             /\ UNCHANGED <<accumulator_, context_, dispatch_table_, frame, sp,
                            stack_pointer_before_call_,
                            disable_stack_check_across_call_, tail>>
       /\ sp < stack_limit =>
             /\ pc' = "call" /\ callee' = kStackGuard
             /\ cont' = pc

\* C8: a StackCheck that finds the stack pointer below the limit makes one
\* call to the runtime stack guard, and the call returns to the point the
\* check was made from; one that finds it above the limit makes no call and
\* changes nothing, and the handler goes on from the same point.
C8_StackCheck == [](C8_Calls) /\ [][C8_Step]_vars

\* One stack check called the guard and the handler went on; the next,
\* with the stack pointer above the limit, called nothing.
C8_Witness ==
    /\ pc = "done"
    /\ StackChecksBelow # {}
    /\ Indices("StackCheck") \ StackChecksBelow # {}

\* The tail call the untraced run makes where the traced run makes its own.
UntracedTail ==
    [kind |-> tail.kind,
     target |-> IF tail.kind = "dispatch"
                THEN HandlerOf(untraced.dispatch_table_, BufferByte(tail.args[3]))
                ELSE InterpreterExitTrampoline,
     args |-> <<untraced.accumulator_, RegisterFileRawPointer, tail.args[3],
                BytecodeArrayTaggedPointer, untraced.dispatch_table_,
                untraced.context_>>]

\* C9, as stated: a handler ends with the same tail call (same handler
\* selected, same six values) and the same register frame, reserved slots
\* included, with tracing enabled as with tracing disabled.
C9_TracingObservational ==
    TailTaken => (tail = UntracedTail /\ frame = untraced.frame)

\* C9, amended: with tracing enabled the handler holds and passes the same
\* accumulator, context, offset, frame base and buffer and leaves the same
\* registers and context slot as with tracing disabled; the reserved slots
\* are rewritten by the prologue of each trace call, and the dispatch table,
\* and with it the handler selected, is the same only while no trace call
\* had the table slot swapped under it.
C9_TracingAmended ==
    /\ accumulator_ = untraced.accumulator_
    /\ context_ = untraced.context_
    /\ frame.context = untraced.frame.context
    /\ frame.r0 = untraced.frame.r0
    /\ ~trace_swapped => dispatch_table_ = untraced.dispatch_table_
    /\ ((Running \/ pc = "entry") /\ ~trace_swapped) =>
          frame.dispatch_table = untraced.frame.dispatch_table
    /\ ~FLAG_trace_ignition => frame = untraced.frame
    /\ TailTaken =>
          /\ \A k \in {1, 2, 3, 4, 6} : tail.args[k] = UntracedTail.args[k]
          /\ ~trace_swapped => tail = UntracedTail
          /\ (FLAG_trace_ignition /\ Indices("call") \subseteq
                  (CallIndices(kInterpreterTraceBytecodeEntry)
                      \cup CallIndices(kInterpreterTraceBytecodeExit))) =>
                frame.bytecode_offset = 2 * params.bytecode_offset

\* A traced handler has dispatched through a table swapped during its trace
\* call, with a saved offset the untraced run never wrote.
C9_Witness ==
    /\ FLAG_trace_ignition
    /\ tail.kind = "dispatch"
    /\ trace_swapped
    /\ tail.target # UntracedTail.target
    /\ frame.bytecode_offset # untraced.frame.bytecode_offset

TraceEvent(fid, acc, ctx) ==
    Event("call", fid, <<ctx, BytecodeArrayTaggedPointer,
                         2 * params.bytecode_offset, acc>>)

\* C10: with the trace flag set the first operation of a handler is its one
\* trace-entry call, and the operation before its tail call is its one
\* trace-exit call; both carry the bytecode buffer, the Smi-tagged offset of
\* the handler and the accumulator of that moment.  With the flag clear no
\* trace call is made.
C10_TraceEvents ==
    /\ ~FLAG_trace_ignition =>
          \A i \in Indices("call") : ops[i].fid \notin TraceFunctions
    /\ FLAG_trace_ignition =>
          /\ pc # "entry" =>
                /\ Len(ops) >= 2
                /\ ops[1].op = "CallPrologue"
                /\ ops[2] = TraceEvent(kInterpreterTraceBytecodeEntry,
                                       params.accumulator, params.context)
          /\ CallIndices(kInterpreterTraceBytecodeEntry) \subseteq {2}
          /\ Cardinality(CallIndices(kInterpreterTraceBytecodeExit)) <= 1
          /\ \A i \in CallIndices(kInterpreterTraceBytecodeExit) :
                /\ i >= Len(ops) - 2
                /\ ops[i] = TraceEvent(kInterpreterTraceBytecodeExit,
                                       accumulator_, context_)
                /\ ops[i - 2].op \in {"Jump", "JumpConditional", "Dispatch",
                                      "InterpreterReturn"}
          /\ TailTaken =>
                /\ Len(ops) >= 3
                /\ ops[Len(ops) - 1].op = "CallEpilogue"
                /\ ops[Len(ops) - 2] =
                      TraceEvent(kInterpreterTraceBytecodeExit,
                                 tail.args[1], tail.args[6])

\* A traced handler set the accumulator and took a conditional jump.
C10_Witness ==
    /\ FLAG_trace_ignition
    /\ pc = "done"
    /\ Indices("JumpConditional") # {}
    /\ accumulator_ # params.accumulator
    /\ tail.args[3] # params.bytecode_offset

\* C11: Abort(reason) makes its runtime call with the stack-pointer check
\* disabled (its prologue takes no snapshot), passes the abort service the
\* context and the Smi-tagged reason, and nothing follows that call: no
\* epilogue, no dispatch, no tail call, no further handler operation.
C11_AbortEndsExecution ==
    /\ \A i \in Indices("Abort") :
          /\ i + 2 = Len(ops)
          /\ ops[i + 1].op = "CallPrologue"
          /\ ops[i + 2] =
                Event("call", kAbort, <<context_, 2 * ops[i].args[1]>>)
          /\ pc \in {"call", "aborted"}
          /\ callee = kAbort
          /\ ~TailTaken
          /\ disable_stack_check_across_call_
          /\ stack_pointer_before_call_ = NoStackPointer
    /\ \A i \in CallIndices(kAbort) : i > 2 /\ ops[i - 2].op = "Abort"
    /\ pc = "aborted" => Indices("Abort") # {}

\* A debug-build handler did some work and then aborted for its own reason.
C11_Witness ==
    /\ pc = "aborted"
    /\ FLAG_debug_code
    /\ \E i \in Indices("Abort") :
          /\ i > 1
          /\ ops[i].args[1] \in HandlerBailoutReasons

AbortEvents(reason) == {i \in Indices("Abort") : ops[i].args[1] = reason}

\* The epilogue of a debug build, by the stack pointer the call came back with.
EpilogueStep ==
    (pc = "epilogue" /\ FLAG_debug_code /\ callee # kAbort) =>
       IF sp # before_call.sp
       THEN /\ ops' = ops \o
                   <<Event("CallEpilogue", "", <<>>),
                     Event("Abort", "", <<kUnexpectedStackPointer>>),
                     Event("CallPrologue", "", <<>>),
                     Event("call", kAbort,
                           <<context_, 2 * kUnexpectedStackPointer>>)>>
            /\ pc' = "call"
            /\ callee' = kAbort
            /\ dispatch_table_' = dispatch_table_
            /\ tail' = NoTail
       ELSE /\ ops' = Append(ops, Event("CallEpilogue", "", <<>>))
            /\ dispatch_table_' = frame.dispatch_table
            /\ pc' = cont
            /\ pc' \in {"body", "dispatch", "return"}

C12_Aborted ==
    \A i \in AbortEvents(kUnexpectedStackPointer) :
       /\ FLAG_debug_code
       /\ i > 1
       /\ ops[i - 1].op = "CallEpilogue"
       /\ ~TailTaken
       /\ pc \in {"call", "aborted"}

\* C12: in a debug build, the epilogue of every call-out but Abort's own
\* compares the stack pointer with the one the prologue saw.  If they differ
\* it calls Abort with kUnexpectedStackPointer, reloads nothing and the
\* handler never reaches its dispatch; if they are equal it makes no abort
\* call, reloads the dispatch table and the handler goes on.
C12_EpilogueStackCheck == [](C12_Aborted) /\ [][EpilogueStep]_vars

\* A first call-out passed the check, a second one moved the stack pointer.
C12_Witness ==
    /\ pc = "aborted"
    /\ AbortEvents(kUnexpectedStackPointer) # {}
    /\ Cardinality(Indices("CallEpilogue")) >= 2
    /\ Cardinality(Indices("call")) >= 3

\* C13: a handler's execution ends only by a tail call: the dispatch to the
\* next handler, or InterpreterReturn's tail call to the exit trampoline.
\* Nothing returns to the handler's caller; the one other way a path stops is
\* inside the abort service, which does not return.
C13_OnlyTailCallsEnd ==
    /\ pc \in {"entry", "body", "call", "epilogue", "dispatch", "return",
               "done", "aborted"}
    /\ (pc = "done") <=> TailTaken
    /\ Indices("Return") = {}
    /\ TailTaken =>
          /\ ops[Len(ops)].op = "TailCall"
          /\ tail.kind \in {"dispatch", "return"}
          /\ (tail.kind = "return") <=> (Indices("InterpreterReturn") # {})
          /\ tail.kind = "return" => tail.target = InterpreterExitTrampoline
          /\ tail.kind = "dispatch" =>
                /\ tail.target # InterpreterExitTrampoline
                /\ Indices("Jump") \cup Indices("JumpConditional")
                      \cup Indices("Dispatch") # {}
    /\ pc = "aborted" =>
          /\ ops[Len(ops)].op = "call"
          /\ ops[Len(ops)].fid = kAbort
    /\ (~ENABLED Next) => pc \in {"done", "aborted"}

\* A traced handler made a call-out and left through InterpreterReturn.
C13_Witness ==
    /\ pc = "done"
    /\ tail.kind = "return"
    /\ FLAG_trace_ignition
    /\ Cardinality(Indices("call")) >= 3

\* ------------------------------------------------------------ decoding properties
\* The k-th byte of an operand as it lies in the bytecode array.
OperandByte(operand_index, k) ==
    operand_bytes[GetOperandOffset(operand_types, operand_index) + k]

LowByte(operand_index) ==
    IF target.V8_TARGET_LITTLE_ENDIAN THEN OperandByte(operand_index, 0)
    ELSE OperandByte(operand_index, 1)

HighByte(operand_index) ==
    IF target.V8_TARGET_LITTLE_ENDIAN THEN OperandByte(operand_index, 1)
    ELSE OperandByte(operand_index, 0)

Signed8(byte) == IF byte >= 128 THEN byte - 256 ELSE byte

Unsigned16(operand_index) ==
    LowByte(operand_index) + 256 * HighByte(operand_index)

Signed16(operand_index) ==
    IF HighByte(operand_index) >= 128 THEN Unsigned16(operand_index) - 65536
    ELSE Unsigned16(operand_index)

OperandsOfSize(operand_size) ==
    {i \in OperandIndices : GetOperandSize(operand_types, i) = operand_size}

HasValue(fns) == decoded.fn \in fns /\ pc # "unreachable"

\* C14: for a two-byte operand the byte-combining path gives what the direct
\* 16-bit load gives, on either byte order: unsigned it is
\* low | (high << 8), within 0..65535; signed it is that value sign-extended
\* from the top bit of the high byte to the full word.
C14_ShortDecoding ==
    /\ \A i \in OperandsOfSize("kShort") :
          /\ BytecodeOperandShortBytewise(i) = BytecodeOperandShortUnaligned(i)
          /\ BytecodeOperandShortBytewise(i) = WordOf(Unsigned16(i), kInt32Size)
          /\ Unsigned16(i) \in 0..65535
          /\ ToPointerSize(LoadShortBytewise(i)) =
                ToPointerSize(LoadShortUnaligned(i))
          /\ ToPointerSize(LoadShortBytewise(i)) =
                WordOf(Signed16(i), kPointerSize)
    /\ (/\ HasValue({"BytecodeOperandIdx", "BytecodeOperandCount"})
        /\ decoded.operand_index \in OperandsOfSize("kShort")) =>
          decoded.value = WordOf(Unsigned16(decoded.operand_index), kInt32Size)
    /\ (/\ HasValue({"BytecodeOperandReg"})
        /\ decoded.operand_index \in OperandsOfSize("kShort")) =>
          decoded.value = WordOf(Signed16(decoded.operand_index), kPointerSize)

\* A negative two-byte register operand decoded bytewise on a big-endian
\* 64-bit target.
C14_Witness ==
    /\ HasValue({"BytecodeOperandReg"})
    /\ decoded.operand_index \in OperandsOfSize("kShort")
    /\ ~TargetSupportsUnalignedAccess
    /\ ~target.V8_TARGET_LITTLE_ENDIAN
    /\ kPointerSize = kInt64Size
    /\ HighByte(decoded.operand_index) >= 128
    /\ LowByte(decoded.operand_index) < 128

\* C15: BytecodeOperandSignExtended gives the operand byte read as a signed
\* 8-bit number, widened to the full word of the target, 32-bit or 64-bit:
\* 0xFF gives -1 and 0x7F gives 127.
C15_SignExtendedByte ==
    /\ \A i \in OperandsOfSize("kByte") :
          /\ BytecodeOperandSignExtended(i) =
                WordOf(Signed8(OperandByte(i, 0)), kPointerSize)
          /\ OperandByte(i, 0) = 255 =>
                BytecodeOperandSignExtended(i) = IntPtrConstant(0 - 1)
          /\ OperandByte(i, 0) = 127 =>
                BytecodeOperandSignExtended(i) = IntPtrConstant(127)
    /\ HasValue({"BytecodeOperandImm"}) =>
          /\ Len(decoded.value) = kPointerSize
          /\ decoded.value =
                WordOf(Signed8(OperandByte(decoded.operand_index, 0)),
                       kPointerSize)

\* The immediate 0xFF decoded on a 64-bit target.
C15_Witness ==
    /\ HasValue({"BytecodeOperandImm"})
    /\ OperandByte(decoded.operand_index, 0) = 255
    /\ kPointerSize = kInt64Size
    /\ decoded.value = Fill(255, kInt64Size)

\* The index a register operand encodes.
RegisterIndex(operand_index) ==
    IF GetOperandSize(operand_types, operand_index) = "kByte"
    THEN Signed8(OperandByte(operand_index, 0))
    ELSE Signed16(operand_index)

\* C16: BytecodeOperandReg decodes a register operand through the
\* sign-extended decoder of its declared width, never the unsigned one, and
\* stops on an operand that is no register.  With operand 0 the index byte 5
\* and operand 1 the register byte 0xFD, the two decode to 5 and -3 and the
\* register lies at frame_base - 3 * word_size.
C16_RegisterOperand ==
    /\ decoded.fn = "BytecodeOperandReg" =>
          LET i == decoded.operand_index
              type == GetOperandType(operand_types, i)
          IN IF IsRegisterOperandType(type)
             THEN /\ pc # "unreachable"
                  /\ decoded.value = WordOf(RegisterIndex(i), kPointerSize)
                  /\ decoded.value =
                        (IF SizeOfOperand(type) = "kByte"
                         THEN BytecodeOperandSignExtended(i)
                         ELSE BytecodeOperandShortSignExtended(i))
             ELSE /\ pc = "unreachable"
                  /\ decoded.value = <<>>
    /\ (operand_types = <<"kIdx8", "kReg8">> /\ operand_bytes = <<5, 253>>) =>
          /\ BytecodeOperand(0) = Int32Constant(5)
          /\ HasValue({"BytecodeOperandReg"}) =>
                decoded.value = IntPtrConstant(0 - 3)
          /\ (HasValue({"RegisterLocation"})
                /\ decoded.arg = IntPtrConstant(0 - 3)) =>
                decoded.value =
                   IntPtrConstant(RegisterFileRawPointer - 3 * kPointerSize)

\* Index 5 and register -3 were decoded and the register's address taken.
C16_Witness ==
    /\ operand_types = <<"kIdx8", "kReg8">>
    /\ operand_bytes = <<5, 253>>
    /\ HasValue({"RegisterLocation"})
    /\ decoded.arg = WordOf(0 - 3, kPointerSize)
    /\ decoded.operand_index = 1

\* The register indices NextRegister and RegisterLocation are applied to.
RegisterIndices(operand_index) ==
    {RegisterIndex(operand_index), RegisterIndex(operand_index) - 1}

C17_Values ==
    /\ HasValue({"NextRegister"}) =>
          LET i == RegisterIndex(decoded.operand_index)
          IN /\ decoded.arg = WordOf(i, kPointerSize)
             /\ decoded.value = WordOf(i - 1, kPointerSize)
    /\ HasValue({"RegisterLocation"}) =>
          \E i \in RegisterIndices(decoded.operand_index) :
             /\ decoded.arg = WordOf(i, kPointerSize)
             /\ decoded.value =
                   WordOf(RegisterFileRawPointer + i * kPointerSize,
                          kPointerSize)

C17_Pure ==
    (decoded' # decoded /\ decoded'.fn \in {"NextRegister", "RegisterLocation"})
       => UNCHANGED <<pc, DecodeFrame>>

\* C17: NextRegister(i) is i - 1 and RegisterLocation(i) is
\* frame_base + i * word_size, for negative indices too, where the shift by
\* log2(word_size) in word-width arithmetic is the multiplication; neither
\* changes any state.
C17_RegisterArithmetic == [](C17_Values) /\ [][C17_Pure]_vars

\* The address of the register after a negative two-byte register operand.
C17_Witness ==
    /\ HasValue({"RegisterLocation"})
    /\ RegisterIndex(decoded.operand_index) < 0 - 128
    /\ decoded.arg = WordOf(RegisterIndex(decoded.operand_index) - 1,
                            kPointerSize)
    /\ kPointerSize = kInt64Size

\* C19: BytecodeOperandIdx and BytecodeOperandCount give 0..255 for a
\* byte-sized operand (0xFF is 255) and 0..65535 for a short one;
\* BytecodeOperandImm gives the sign-extended byte; on an operand of size
\* none they produce no value and code generation stops.
C19_IdxCountImm ==
    /\ HasValue({"BytecodeOperandIdx", "BytecodeOperandCount"}) =>
          LET i == decoded.operand_index
              size == GetOperandSize(operand_types, i)
          IN /\ size \in {"kByte", "kShort"}
             /\ size = "kByte" =>
                   /\ OperandByte(i, 0) \in 0..255
                   /\ decoded.value = WordOf(OperandByte(i, 0), kInt32Size)
             /\ size = "kShort" =>
                   /\ Unsigned16(i) \in 0..65535
                   /\ decoded.value = WordOf(Unsigned16(i), kInt32Size)
    /\ HasValue({"BytecodeOperandImm"}) =>
          decoded.value =
             SignExtend(<<OperandByte(decoded.operand_index, 0)>>,
                        kPointerSize)
    /\ (/\ decoded.fn \in {"BytecodeOperandIdx", "BytecodeOperandCount"}
        /\ GetOperandSize(operand_types, decoded.operand_index) = "kNone") =>
          /\ pc = "unreachable"
          /\ decoded.value = <<>>
          /\ ~ENABLED NextDecode

\* The index byte 0xFF decoded as 255.
C19_Witness ==
    /\ HasValue({"BytecodeOperandIdx"})
    /\ GetOperandSize(operand_types, decoded.operand_index) = "kByte"
    /\ OperandByte(decoded.operand_index, 0) = 255
    /\ decoded.value = <<255, 0, 0, 0>>

\* ------------------------------------------------------------ frame and context
\* The last call-out among the operations.
LastCall == CHOOSE i \in Indices("call") : \A j \in Indices("call") : j <= i

SetSince(i) ==
    {j \in Indices("SetAccumulator") \cup Indices("SetContext") : j > i}

C18_AcrossCall ==
    /\ pc \in {"call", "epilogue"} =>
          /\ accumulator_ = before_call.accumulator_
          /\ context_ = before_call.context_
    /\ TailTaken =>
          /\ tail.args[1] = accumulator_
          /\ tail.args[3] = TerminalOffset
          /\ tail.args[6] = context_
          /\ (Indices("call") # {} /\ SetSince(LastCall) = {}) =>
                /\ tail.args[1] = before_call.accumulator_
                /\ tail.args[6] = before_call.context_

C18_EpilogueStep ==
    (pc = "epilogue" /\ pc' = cont) =>
       /\ accumulator_' = before_call.accumulator_
       /\ context_' = before_call.context_
       /\ params' = params
       /\ frame' = frame
       /\ dispatch_table_' = frame.dispatch_table

\* C18: the epilogue reloads the dispatch table and nothing else.  Once a
\* call-out has returned, the bytecode offset, the accumulator and the
\* context the handler goes on with, and passes in its tail call, are those
\* it had before the call, whatever the callee left in the saved-offset slot
\* and the current-context slot.
C18_EpilogueReloadsTableOnly == [](C18_AcrossCall) /\ [][C18_EpilogueStep]_vars

\* The callee overwrote both slots and the handler dispatched.
C18_Witness ==
    /\ TailTaken
    /\ ~FLAG_trace_ignition
    /\ Indices("call") # {}
    /\ frame.context # context_
    /\ frame.bytecode_offset = StaleOffset
    /\ frame.bytecode_offset # 2 * params.bytecode_offset
    /\ dispatch_table_ # params.dispatch_table

LastSetContext ==
    CHOOSE i \in Indices("SetContext") : \A j \in Indices("SetContext") : j <= i

C20_Context ==
    /\ GetContext = LastSet("SetContext", params.context)
    /\ TailTaken => tail.args[6] = LastSet("SetContext", params.context)
    /\ frame.context # GetContext =>
          \E i \in Indices("call") :
             Indices("SetContext") # {} => i > LastSetContext

C20_Step ==
    /\ frame'.context # frame.context =>
          \/ pc = "call"
          \/ /\ ops' # ops
             /\ ops'[Len(ops')].op = "SetContext"
             /\ frame'.context = ops'[Len(ops')].args[1]
             /\ context_' = frame'.context
    /\ (ops' # ops /\ ops'[Len(ops')].op = "SetAccumulator") =>
          /\ accumulator_' = ops'[Len(ops')].args[1]
          /\ UNCHANGED <<frame, context_, dispatch_table_, params, sp, pc,
                         stack_pointer_before_call_>>

\* C20: the current-context register slot is written by SetContext and by
\* nothing else of the handler, so as long as no callee has written it since,
\* GetContext, the context of the next dispatch and the slot all are the last
\* SetContext argument.  SetAccumulator changes the accumulator only and
\* writes no frame slot.
C20_ContextMirrorsSlot == [](C20_Context) /\ [][C20_Step]_vars

\* Two SetContext calls, then a dispatch with the slot still in step.
C20_Witness ==
    /\ TailTaken
    /\ Cardinality(Indices("SetContext")) >= 2
    /\ frame.context = tail.args[6]
    /\ tail.args[6] # params.context

\* ------------------------------------------------------------ snapshot pairing
\* The step runs a CallPrologue.
PrologueStep ==
    /\ Len(ops') > Len(ops)
    /\ \E i \in (Len(ops) + 1)..Len(ops') : ops'[i].op = "CallPrologue"

InAbortCall == callee = kAbort /\ pc \in {"call", "aborted"}

C21_Pending ==
    /\ disable_stack_check_across_call_ <=> InAbortCall
    /\ pc \notin {"call", "epilogue"} =>
          stack_pointer_before_call_ = NoStackPointer
    /\ (pc \in {"call", "epilogue"} /\ ~InAbortCall) =>
          stack_pointer_before_call_ =
             (IF FLAG_debug_code THEN before_call.sp ELSE NoStackPointer)
    /\ InAbortCall => stack_pointer_before_call_ = NoStackPointer
    /\ \A i, j \in Indices("CallPrologue") :
          i < j => \E k \in Indices("CallEpilogue") : i < k /\ k < j

C21_Step ==
    /\ (PrologueStep /\ FLAG_debug_code /\ callee' # kAbort) =>
          /\ stack_pointer_before_call_ = NoStackPointer
          /\ stack_pointer_before_call_' = sp
          /\ ~disable_stack_check_across_call_'
    /\ (PrologueStep /\ callee' = kAbort) =>
          /\ pc = "epilogue" => FLAG_debug_code
          /\ stack_pointer_before_call_' = NoStackPointer
          /\ disable_stack_check_across_call_'
    /\ (pc = "epilogue" /\ pc' # "epilogue") =>
          /\ stack_pointer_before_call_' = NoStackPointer
          /\ pc' = cont => ~disable_stack_check_across_call_'

\* C21: in a debug build no snapshot of the stack pointer is pending when a
\* CallPrologue takes one, none is pending after a CallEpilogue, also when
\* the epilogue's check reaches Abort and Abort makes its own call, and
\* every two prologues have an epilogue between them.  The disable flag is
\* set during Abort's own runtime call and at no other time.
C21_SnapshotPairing == [](C21_Pending) /\ [][C21_Step]_vars

\* A traced debug-build handler whose stack guard call moved the stack
\* pointer: two checked call-outs, then the epilogue's Abort.
C21_Witness ==
    /\ FLAG_debug_code
    /\ FLAG_trace_ignition
    /\ pc = "aborted"
    /\ CallIndices(kStackGuard) # {}
    /\ AbortEvents(kUnexpectedStackPointer) # {}
    /\ Cardinality(Indices("CallEpilogue")) >= 2
    /\ Cardinality(Indices("CallPrologue")) >= 3
====
